---- MODULE Spec2Model ----
(***************************************************************************)
(* CropPulse (src/app.py): a Streamlit dashboard.  Every user interaction  *)
(* re-executes the whole script top to bottom: it reads the widgets,       *)
(* classifies the submitted image, derives the savings metrics, records    *)
(* the scan in the session history, looks the label up in knowledge.json   *)
(* and renders the history section.                                        *)
(*                                                                         *)
(* Representation.                                                         *)
(*  - A string the script computes on (a label) is the sequence of its     *)
(*    code points: 95 '_', 32 ' ', 45 '-', 65 'A', 66 'B'.                 *)
(*  - A confidence c is the integer c * ConfScale.  ConfScale is 50 times  *)
(*    an odd number: 0.30, 0.50 and 0.82 are on the grid and no grid point *)
(*    is a rounding tie of (1.1 - c) * 100, c * 100 or c * 10 to the       *)
(*    digits the script rounds to, so the exact arithmetic here and the    *)
(*    script's binary floating point give the same results.                *)
(*  - A field size is in tenths of an acre.                                *)
(*  - An image is represented by the ranked list the pretrained            *)
(*    classifier returns for it; <<>> is "no image submitted".             *)
(*  - The wall clock is in seconds; strftime("%H:%M:%S") is modelled by    *)
(*    Strftime.                                                            *)
(***************************************************************************)
EXTENDS Integers, Sequences, FiniteSets, TLC

VARIABLES
    has_scan_history,   \* 'scan_history' in st.session_state
    scan_history,       \* st.session_state.scan_history
    clock,              \* the wall clock, seconds
    selected_lang,      \* sidebar selectbox
    field_size,         \* sidebar slider, tenths of an acre
    final_img,          \* the submitted image, or NoImage
    knowledge_file,     \* what open('knowledge.json') + json.load gives
    run,                \* the classifier call of the last run: "no_image"
                        \* (not called), "raised" or "done"; "not_run"
                        \* before the page is first loaded
    raw_label,          \* locals of the last script run
    clean_label,
    confidence,
    affected_area,
    chem_saved,
    yield_prot,
    data,
    page                \* what the last script run rendered

vars == <<has_scan_history, scan_history, clock, selected_lang, field_size,
          final_img, knowledge_file, run, raw_label, clean_label, confidence,
          affected_area, chem_saved, yield_prot, data, page>>

----------------------------------------------------------------------------
(* Bounds and resolutions *)

ConfScale == 1050

SecondsPerDay == 86400

MaxHistory == 3

MaxDay == 1

MaxSecond == 1

MaxPredictions == 3

----------------------------------------------------------------------------
(* Python helpers *)

Max(a, b) == IF a >= b THEN a ELSE b

\* round(num / den) for num >= 0, den > 0: nearest integer, ties to even.
RoundHalfEven(num, den) ==
    LET q == num \div den
        r == num % den
    IN  IF 2 * r < den THEN q
        ELSE IF 2 * r > den THEN q + 1
        ELSE IF q % 2 = 0 THEN q ELSE q + 1

IsPrefixAt(s, old) ==
    /\ Len(s) >= Len(old)
    /\ SubSeq(s, 1, Len(old)) = old

\* str.replace(old, new): leftmost non-overlapping occurrences, old non-empty.
RECURSIVE Replace(_, _, _)
Replace(s, old, new) ==
    IF Len(s) < Len(old) THEN s
    ELSE IF IsPrefixAt(s, old)
         THEN new \o Replace(SubSeq(s, Len(old) + 1, Len(s)), old, new)
         ELSE <<Head(s)>> \o Replace(Tail(s), old, new)

\* s < t for Python strings (code point order).
RECURSIVE StrLess(_, _)
StrLess(s, t) ==
    IF t = <<>> THEN FALSE
    ELSE IF s = <<>> THEN TRUE
    ELSE IF Head(s) # Head(t) THEN Head(s) < Head(t)
    ELSE StrLess(Tail(s), Tail(t))

\* datetime.now().strftime("%H:%M:%S")
Strftime(t) ==
    LET d == t % SecondsPerDay
    IN  <<d \div 3600, (d % 3600) \div 60, d % 60>>

----------------------------------------------------------------------------
(* The script's steps *)

Langs == {"English", "Hindi"}

NoImage == <<>>

None == "None"

NoData == [k \in {} |-> None]

\* the same without the membership test: the list is reset on every run
InitHistoryAlways(has, hist) == <<>>

\* if 'scan_history' not in st.session_state: st.session_state.scan_history = []
InitHistory(has, hist) == IF has THEN hist ELSE <<>>

\* the head of the list taken for the best pair
BestFirst(predictions) == predictions[1]

\* max(predictions, key=lambda x: x['score']): the first pair of maximal score
Best(predictions) ==
    LET i == CHOOSE i \in 1..Len(predictions) :
                 /\ \A j \in 1..Len(predictions) :
                        predictions[j].score <= predictions[i].score
                 /\ \A j \in 1..(i - 1) :
                        predictions[j].score < predictions[i].score
    IN  predictions[i]

\* raw_label.replace("___", " - ").replace("_", " ")
CleanLabel(raw) ==
    Replace(Replace(raw, <<95, 95, 95>>, <<32, 45, 32>>), <<95>>, <<32>>)

\* the same with 1.0 for 1.1: the affected share is the plain uncertainty
AffectedAreaNoMargin(c) ==
    Max(5, RoundHalfEven(100 * ConfScale - 100 * c, ConfScale))

\* the same capped at 100 percent
AffectedAreaCapped(c) ==
    LET a == Max(5, RoundHalfEven(110 * ConfScale - 100 * c, ConfScale))
    IN  IF a > 100 THEN 100 ELSE a

\* max(5, round((1.1 - confidence) * 100))
AffectedArea(c) ==
    Max(5, RoundHalfEven(110 * ConfScale - 100 * c, ConfScale))

\* 100 - affected_area
ChemSaved(area) == 100 - area

\* round(confidence * 100, 1), in tenths of a percent
YieldProt(c) == RoundHalfEven(1000 * c, ConfScale)

\* confidence < 0.50
LowConfidence(c) == 2 * c < ConfScale

\* confidence > 0.30
Usable(c) == 10 * c > 3 * ConfScale

\* {"Time": now, "Condition": clean_label, "Score": round(confidence*10, 1)}
NewEntry(now, clean, c) ==
    [Time |-> Strftime(now), Condition |-> clean,
     Score |-> RoundHalfEven(100 * c, ConfScale)]

\* the same without the timestamp test
RecordScanAlways(hist, entry) == Append(hist, entry)

\* if not scan_history or scan_history[-1]["Time"] != now: append(new_entry)
RecordScan(hist, entry) ==
    IF hist = <<>> \/ hist[Len(hist)].Time # entry.Time
    THEN Append(hist, entry)
    ELSE hist

\* the record substituted when neither label is in the store (lines 193-198);
\* the Hindi text of hindi_pest is written here in ASCII
DefaultRecord ==
    [symptoms |-> "Detailed symptoms pending for this variant.",
     pesticide |-> "Consult your local Krishi Vigyan Kendra.",
     organic |-> "Apply diluted Neem Oil (5ml/L).",
     hindi_pest |-> "hi: Consult your local agriculture centre."]

\* the record substituted when the store cannot be loaded (line 200)
ErrorRecord ==
    [symptoms |-> "Database error.", pesticide |-> "N/A", organic |-> "N/A"]

\* dict.get(key): None when the key is missing
Get(d, key) == IF key \in DOMAIN d THEN d[key] ELSE None

\* bool(record): an empty dict is falsy
Truthy(x) == DOMAIN x # {}

\* the same with the cleaned label tried first
LookupCleanFirst(kb, raw, clean) ==
    IF clean \in DOMAIN kb /\ Truthy(kb[clean]) THEN kb[clean]
    ELSE IF raw \in DOMAIN kb /\ Truthy(kb[raw]) THEN kb[raw]
    ELSE DefaultRecord

\* kb.get(raw_label) or kb.get(clean_label) or {...}
Lookup(kb, raw, clean) ==
    IF raw \in DOMAIN kb /\ Truthy(kb[raw]) THEN kb[raw]
    ELSE IF clean \in DOMAIN kb /\ Truthy(kb[clean]) THEN kb[clean]
    ELSE DefaultRecord

\* try: kb = json.load(open('knowledge.json')); data = ... except: data = {...}
KnowledgeLookup(kf, raw, clean) ==
    IF kf.ok THEN Lookup(kf.kb, raw, clean) ELSE ErrorRecord

\* data['pesticide'] if selected_lang == 'English' else data.get('hindi_pest')
TreatmentText(d, lang) ==
    IF lang = "English" THEN d["pesticide"] ELSE Get(d, "hindi_pest")

\* the number of rows of the history whose Condition is label
Occurrences(hist, label) ==
    Cardinality({i \in 1..Len(hist) : hist[i].Condition = label})

\* the most frequent value whose first row comes first
ModeFirstEncountered(hist) ==
    LET labels == {hist[i].Condition : i \in 1..Len(hist)}
        modes == {l \in labels :
                     \A m \in labels : Occurrences(hist, m) <= Occurrences(hist, l)}
        first == CHOOSE i \in 1..Len(hist) :
                     /\ hist[i].Condition \in modes
                     /\ \A j \in 1..(i - 1) : hist[j].Condition \notin modes
    IN  hist[first].Condition

\* df_hist['Condition'].mode()[0]: pandas returns the modes in sorted order,
\* so [0] is the least of the most frequent values (hist is not empty)
Mode(hist) ==
    LET labels == {hist[i].Condition : i \in 1..Len(hist)}
        modes == {l \in labels :
                     \A m \in labels : Occurrences(hist, m) <= Occurrences(hist, l)}
    IN  CHOOSE l \in modes : \A m \in modes : m = l \/ StrLess(l, m)

\* df_hist.tail(3)
LastRows(hist) ==
    IF Len(hist) <= 3 THEN hist ELSE SubSeq(hist, Len(hist) - 2, Len(hist))

\* the history section (lines 235-254) of a run that reaches it
HistorySection(hist) ==
    IF hist # <<>>
    THEN [history_shown |-> TRUE, insight |-> Mode(hist), table |-> LastRows(hist)]
    ELSE [history_shown |-> FALSE, insight |-> <<>>, table |-> <<>>]

\* what a run renders above the history section when no image is submitted
BlankResults ==
    [low_confidence |-> FALSE, detected |-> FALSE, highlights |-> FALSE,
     tabs |-> FALSE, treatment |-> "", reduction |-> 0]

\* A run with no image submitted: lines 145-233 are skipped.
NoImageRun(hist0) ==
    [run |-> "no_image", scan_history |-> hist0,
     raw_label |-> <<>>, clean_label |-> <<>>, confidence |-> 0,
     affected_area |-> 0, chem_saved |-> 0, yield_prot |-> 0,
     data |-> NoData,
     page |-> [exception |-> FALSE, results |-> BlankResults,
               history |-> HistorySection(hist0)]]

\* A run whose classifier call returns img's ranked list: lines 150-254.
DoneRun(hist0, lang, fs, img, now, kf) ==
    LET res == Best(img)
        raw == res.label
        clean == CleanLabel(raw)
        c == res.score
        area == AffectedArea(c)
        saved == ChemSaved(area)
        hist1 == RecordScan(hist0, NewEntry(now, clean, c))
        d == KnowledgeLookup(kf, raw, clean)
    IN  [run |-> "done", scan_history |-> hist1,
         raw_label |-> raw, clean_label |-> clean, confidence |-> c,
         affected_area |-> area, chem_saved |-> saved,
         yield_prot |-> YieldProt(c),
         data |-> d,
         page |-> [exception |-> FALSE,
                   results |-> [low_confidence |-> LowConfidence(c),
                                detected |-> ~LowConfidence(c),
                                highlights |-> Usable(c),
                                tabs |-> TRUE,
                                treatment |-> TreatmentText(d, lang),
                                reduction |-> saved * fs],
                   history |-> HistorySection(hist1)]]

\* the same with a guard around the classifier call that shows an error and
\* lets the script go on with a placeholder result
RaisedRunSuppressed(hist0, lang, fs, img, now, kf) ==
    [DoneRun(hist0, lang, fs, <<[label |-> <<85>>, score |-> 0]>>, now, kf)
        EXCEPT !.run = "raised"]

\* A run whose classifier call (line 150) throws: nothing catches it, the
\* script stops there and Streamlit shows the exception.
RaisedRun(hist0, lang, fs, img, now, kf) ==
    [run |-> "raised", scan_history |-> hist0,
     raw_label |-> <<>>, clean_label |-> <<>>, confidence |-> 0,
     affected_area |-> 0, chem_saved |-> 0, yield_prot |-> 0,
     data |-> NoData,
     page |-> [exception |-> TRUE, results |-> BlankResults,
               history |-> HistorySection(<<>>)]]

\* One execution of the script (lines 53-254) with the widgets at lang, fs and
\* img, the clock at now, the knowledge file kf; raises: classifier(final_img)
\* throws.  The result is the session state, the locals and the page after it.
Script(has, hist, lang, fs, img, now, kf, raises) ==
    LET hist0 == InitHistory(has, hist)
    IN  IF img = NoImage THEN NoImageRun(hist0)
        ELSE IF raises THEN RaisedRun(hist0, lang, fs, img, now, kf)
        ELSE DoneRun(hist0, lang, fs, img, now, kf)

----------------------------------------------------------------------------
(* The inputs *)

FieldSizes == {5, 50}

\* the ranked lists the classifier returns for the images of a session
Images ==
    { <<[label |-> <<65, 95, 66>>, score |-> 861], [label |-> <<66>>, score |-> 105]>>,
      <<[label |-> <<66>>, score |-> 945]>>,
      <<[label |-> <<65>>, score |-> 420], [label |-> <<66>>, score |-> 420]>> }

\* knowledge.json: label -> record of four texts.  The session runs with a
\* store that loads; the file that fails to load is an input of SpecLookup.
Record(n) ==
    [symptoms |-> "symptoms", pesticide |-> n, organic |-> "organic",
     hindi_pest |-> "hi"]

Unreadable == [ok |-> FALSE, kb |-> <<>>]

Store(kb) == [ok |-> TRUE, kb |-> kb]

KnowledgeFiles ==
    { Store([l \in {<<65, 95, 66>>, <<65, 32, 66>>, <<65>>} |->
                IF l = <<65, 95, 66>> THEN Record("raw")
                ELSE IF l = <<65, 32, 66>> THEN Record("clean") ELSE Record("A")]) }

\* the instants at which the script runs: the first seconds of the first days
Instants == {day * SecondsPerDay + s : day \in 0..MaxDay, s \in 0..MaxSecond}

----------------------------------------------------------------------------
(* The session *)

Init ==
    /\ has_scan_history = FALSE
    /\ scan_history = <<>>
    /\ clock = 0
    /\ selected_lang = "English"
    /\ field_size = 50
    /\ final_img = NoImage
    /\ knowledge_file \in KnowledgeFiles
    /\ run = "not_run"
    /\ raw_label = <<>>
    /\ clean_label = <<>>
    /\ confidence = 0
    /\ affected_area = 0
    /\ chem_saved = 0
    /\ yield_prot = 0
    /\ data = NoData
    /\ page = [exception |-> FALSE, results |-> BlankResults,
               history |-> HistorySection(<<>>)]

\* Streamlit re-executes the script after an interaction that leaves the
\* widgets at lang, fs and img, at the instant now.
Rerun(lang, fs, img, now, raises) ==
    LET r == Script(has_scan_history, scan_history, lang, fs, img, now,
                    knowledge_file, raises)
    IN  /\ now >= clock
        /\ Len(scan_history) < MaxHistory
        /\ clock' = now
        /\ selected_lang' = lang
        /\ field_size' = fs
        /\ final_img' = img
        /\ has_scan_history' = TRUE
        /\ scan_history' = r.scan_history
        /\ run' = r.run
        /\ raw_label' = r.raw_label
        /\ clean_label' = r.clean_label
        /\ confidence' = r.confidence
        /\ affected_area' = r.affected_area
        /\ chem_saved' = r.chem_saved
        /\ yield_prot' = r.yield_prot
        /\ data' = r.data
        /\ page' = r.page
        /\ UNCHANGED knowledge_file

\* the first page load, and any interaction that changes none of the inputs
\* the script reads (crop type, input labels, the expert form)
Refresh ==
    \E now \in Instants, raises \in BOOLEAN :
        Rerun(selected_lang, field_size, final_img, now, raises)

ChangeLanguage ==
    \E lang \in Langs \ {selected_lang}, now \in Instants, raises \in BOOLEAN :
        Rerun(lang, field_size, final_img, now, raises)

ChangeFieldSize ==
    \E fs \in FieldSizes \ {field_size}, now \in Instants, raises \in BOOLEAN :
        Rerun(selected_lang, fs, final_img, now, raises)

SubmitImage ==
    \E img \in Images \ {final_img}, now \in Instants, raises \in BOOLEAN :
        Rerun(selected_lang, field_size, img, now, raises)

RemoveImage ==
    /\ final_img # NoImage
    /\ \E now \in Instants : Rerun(selected_lang, field_size, NoImage, now, FALSE)

Next ==
    \/ Refresh
    \/ ChangeLanguage
    \/ ChangeFieldSize
    \/ SubmitImage
    \/ RemoveImage

Spec == Init /\ [][Next]_vars

----------------------------------------------------------------------------
(* One scan, over wide input sets.  The session has already loaded the page *)
(* (and possibly recorded a scan); the user submits an image and the script *)
(* runs once on it.                                                         *)

\* the slider's least, default and greatest value (line 116)
SliderSizes == {5, 50, 500}

EarlierScan == [Time |-> Strftime(0), Condition |-> <<66>>, Score |-> 90]

InitScan(imgs, files) ==
    /\ has_scan_history = TRUE
    /\ scan_history \in {<<>>, <<EarlierScan>>}
    /\ clock = 1
    /\ selected_lang \in Langs
    /\ field_size \in SliderSizes
    /\ final_img \in imgs
    /\ knowledge_file \in files
    /\ run = "no_image"
    /\ raw_label = <<>>
    /\ clean_label = <<>>
    /\ confidence = 0
    /\ affected_area = 0
    /\ chem_saved = 0
    /\ yield_prot = 0
    /\ data = NoData
    /\ page = [exception |-> FALSE, results |-> BlankResults,
               history |-> HistorySection(scan_history)]

\* the run that the submission triggers
Scan ==
    /\ run = "no_image"
    /\ final_img # NoImage
    /\ Rerun(selected_lang, field_size, final_img, clock, FALSE)

\* every confidence of the grid, as the only pair of the ranked list
MetricsImages ==
    {<<[label |-> <<65, 95, 66>>, score |-> c]>> : c \in 0..ConfScale}

InitMetrics == InitScan(MetricsImages, KnowledgeFiles)

SpecMetrics == InitMetrics /\ [][Scan]_vars

\* the keys a store may hold: "A_B", "A B", "A___B", "A - B", "A"
StoreKeys ==
    { <<65, 95, 66>>, <<65, 32, 66>>, <<65, 95, 95, 95, 66>>,
      <<65, 32, 45, 32, 66>>, <<65>> }

\* the record a store holds under key: four texts, different for every key
RecordOf(key) ==
    [symptoms |-> "symptoms",
     pesticide |-> CASE key = <<65, 95, 66>> -> "for A_B"
                     [] key = <<65, 32, 66>> -> "for A B"
                     [] key = <<65, 95, 95, 95, 66>> -> "for A___B"
                     [] key = <<65, 32, 45, 32, 66>> -> "for A - B"
                     [] OTHER -> "for A",
     organic |-> "organic",
     hindi_pest |-> "hi"]

\* every store over StoreKeys, and the file that cannot be loaded
LookupFiles ==
    {Unreadable} \cup {Store([k \in keys |-> RecordOf(k)]) : keys \in SUBSET StoreKeys}

\* the labels looked up: "A_B", "A B", "A___B", "A", "B"
LookupImages ==
    {<<[label |-> l, score |-> 861]>> :
        l \in { <<65, 95, 66>>, <<65, 32, 66>>, <<65, 95, 95, 95, 66>>, <<65>>, <<66>> }}

InitLookup == InitScan(LookupImages, LookupFiles)

SpecLookup == InitLookup /\ [][Scan]_vars

\* the pairs of a ranked list: labels "A_B" and "B", scores 0.10, 0.40, 0.82
Pairs ==
    {[label |-> l, score |-> c] : l \in {<<65, 95, 66>>, <<66>>}, c \in {105, 420, 861}}

\* every non-empty list of at most MaxPredictions pairs, in every order
AdapterImages ==
    UNION {[1..n -> Pairs] : n \in 1..MaxPredictions}

InitAdapter == InitScan(AdapterImages, KnowledgeFiles)

SpecAdapter == InitAdapter /\ [][Scan]_vars

----------------------------------------------------------------------------
(* Claims about the metrics derivation (SpecMetrics) *)

\* n is num / den rounded to the nearest integer, a tie to the even one
Nearest(n, num, den) ==
    /\ 2 * (n * den - num) <= den
    /\ 2 * (num - n * den) <= den
    /\ (2 * (n * den - num) = den \/ 2 * (num - n * den) = den) => n % 2 = 0

\* C1: after a scan with confidence c, whatever the field size, the language
\* and the session history, affected_area is max(5, round((1.1 - c) * 100)),
\* chem_saved is 100 - affected_area and yield_prot is round(c * 100, 1);
\* c = 0.82 gives 28, 72 and 82.0.
C1_Metrics ==
    run = "done" =>
        LET x == 110 * ConfScale - 100 * confidence
        IN  /\ affected_area >= 5
            /\ IF 2 * x >= 11 * ConfScale
               THEN Nearest(affected_area, x, ConfScale)
               ELSE affected_area = 5
            /\ chem_saved = 100 - affected_area
            /\ Nearest(yield_prot, 1000 * confidence, ConfScale)
            /\ (50 * confidence = 41 * ConfScale =>
                   affected_area = 28 /\ chem_saved = 72 /\ yield_prot = 820)

\* the end-to-end scenario: confidence 0.82, field size 5.0 acres
C1_Witness ==
    /\ run = "done"
    /\ 50 * confidence = 41 * ConfScale
    /\ field_size = 50
    /\ affected_area = 28
    /\ chem_saved = 72
    /\ yield_prot = 820

\* C2 as stated: at c = 1.0 affected_area is 5 and chem_saved is 95, and at
\* c = 0.0 affected_area is 100.
C2_Boundaries ==
    run = "done" =>
        /\ (confidence = ConfScale => affected_area = 5 /\ chem_saved = 95)
        /\ (confidence = 0 => affected_area = 100)

\* C2 as amended: at c = 1.0 affected_area is 10 and chem_saved is 90 (the
\* floor of 5 is not reached), and at c = 0.0 affected_area is 110 and
\* chem_saved is -10 (nothing clamps at 100).
C2_BoundariesAmended ==
    run = "done" =>
        /\ (confidence = ConfScale => affected_area = 10 /\ chem_saved = 90)
        /\ (confidence = 0 => affected_area = 110 /\ chem_saved = -10)

C2_Witness ==
    /\ run = "done"
    /\ confidence = ConfScale
    /\ affected_area = 10
    /\ chem_saved = 90

----------------------------------------------------------------------------
(* Claims about the knowledge lookup (SpecLookup) *)

\* the cleaned form of each label looked up, written out
CleanedForm(raw) ==
    CASE raw = <<65, 95, 66>> -> <<65, 32, 66>>
      [] raw = <<65, 95, 95, 95, 66>> -> <<65, 32, 45, 32, 66>>
      [] OTHER -> raw

\* C3: with a loaded store the lookup gives the record stored under the raw
\* label if there is one, otherwise the record stored under the cleaned
\* label ("___" to " - ", then "_" to " ") if there is one, otherwise the
\* default record; a label in the store never gives the default record.
C3_Lookup ==
    (run = "done" /\ knowledge_file.ok) =>
        LET kb == knowledge_file.kb
            cleaned == CleanedForm(raw_label)
        IN  /\ clean_label = cleaned
            /\ raw_label \in DOMAIN kb => data = kb[raw_label]
            /\ (raw_label \notin DOMAIN kb /\ cleaned \in DOMAIN kb) =>
                   data = kb[cleaned]
            /\ (raw_label \notin DOMAIN kb /\ cleaned \notin DOMAIN kb) =>
                   data = DefaultRecord
            /\ raw_label \in DOMAIN kb => data # DefaultRecord

\* a label found only under its cleaned form, in a store that also holds
\* other keys
C3_Witness ==
    /\ run = "done"
    /\ knowledge_file.ok
    /\ raw_label = <<65, 95, 95, 95, 66>>
    /\ raw_label \notin DOMAIN knowledge_file.kb
    /\ DOMAIN knowledge_file.kb = {<<65, 32, 45, 32, 66>>, <<65, 95, 66>>}
    /\ data = RecordOf(<<65, 32, 45, 32, 66>>)

\* C4: when the store fails to load the lookup gives the default record of
\* an absent label, with all four fields, so that the treatment text is a
\* defined string in either language.
C4_LoadFailure ==
    (run = "done" /\ ~knowledge_file.ok) =>
        /\ data = DefaultRecord
        /\ DOMAIN data = {"symptoms", "pesticide", "organic", "hindi_pest"}
        /\ page.results.treatment # None

----------------------------------------------------------------------------
(* Claims about the session (Spec) *)

IsPrefix(s, t) == Len(s) <= Len(t) /\ SubSeq(t, 1, Len(s)) = s

Last(s) == s[Len(s)]

\* C5 as stated: the stored history never holds two entries with the same
\* timestamp.
C5_NoRepeatedTime ==
    \A i, j \in 1..Len(scan_history) :
        i # j => scan_history[i].Time # scan_history[j].Time

\* C5 as amended: no two adjacent entries of the stored history have the same
\* timestamp; the entry of a scan is skipped exactly when its timestamp is
\* that of the last stored entry, and is otherwise stored at the end, the
\* earlier entries staying as they were.
C5_RecordScan ==
    [][ /\ \A i \in 1..(Len(scan_history') - 1) :
               scan_history'[i].Time # scan_history'[i + 1].Time
        /\ run' = "done" =>
               IF scan_history = <<>> \/ Last(scan_history).Time # Strftime(clock')
               THEN /\ Len(scan_history') = Len(scan_history) + 1
                    /\ IsPrefix(scan_history, scan_history')
                    /\ Last(scan_history').Time = Strftime(clock')
                    /\ Last(scan_history').Condition = clean_label'
               ELSE scan_history' = scan_history ]_vars

\* a scan whose entry was skipped: the last stored entry is of another label
C5_Witness ==
    /\ run = "done"
    /\ scan_history # <<>>
    /\ Last(scan_history).Condition # clean_label
    /\ Last(scan_history).Time = Strftime(clock)

\* the label of greatest count whose first occurrence is the earliest
FirstEncounteredMode(hist) ==
    LET IsMode(l) == \A i \in 1..Len(hist) :
                        Occurrences(hist, hist[i].Condition) <= Occurrences(hist, l)
        first == CHOOSE i \in 1..Len(hist) :
                     /\ IsMode(hist[i].Condition)
                     /\ \A j \in 1..(i - 1) : ~IsMode(hist[j].Condition)
    IN  hist[first].Condition

\* C6 as stated: the summary shows the label of greatest count, and of several
\* such labels the one encountered first in the history.
C6_FirstEncountered ==
    page.history.history_shown =>
        page.history.insight = FirstEncounteredMode(scan_history)

\* C6 as amended: the summary shows a label of greatest count, and of several
\* such labels the one that sorts first as a string.
C6_LeastMode ==
    page.history.history_shown =>
        LET shown == page.history.insight
        IN  /\ \E i \in 1..Len(scan_history) : scan_history[i].Condition = shown
            /\ \A i \in 1..Len(scan_history) :
                   LET l == scan_history[i].Condition
                   IN  /\ Occurrences(scan_history, l) <= Occurrences(scan_history, shown)
                       /\ Occurrences(scan_history, l) = Occurrences(scan_history, shown)
                              => (l = shown \/ StrLess(shown, l))

\* a tie in which the label shown is not the one encountered first
C6_Witness ==
    /\ page.history.history_shown
    /\ Len(scan_history) >= 2
    /\ page.history.insight # scan_history[1].Condition
    /\ Occurrences(scan_history, scan_history[1].Condition)
          = Occurrences(scan_history, page.history.insight)

\* C7: a render cycle appends at most one entry at the end of the history,
\* never removes or changes an entry, never re-initialises the list once it
\* exists, leaves it alone when no image is classified, and the history
\* section shows the stored rows without changing them.
C7_AppendOnly ==
    [][ /\ IsPrefix(scan_history, scan_history')
        /\ Len(scan_history') <= Len(scan_history) + 1
        /\ has_scan_history => has_scan_history'
        /\ run' \in {"no_image", "raised"} => scan_history' = scan_history
        /\ page'.history.history_shown =>
               /\ page'.history.table # <<>>
               /\ \E k \in 0..Len(scan_history') :
                      scan_history' = SubSeq(scan_history', 1, k) \o page'.history.table ]_vars

\* a render cycle without an image in a session that has recorded scans
C7_Witness ==
    /\ run = "no_image"
    /\ Len(scan_history) >= 2
    /\ page.history.history_shown

\* C8: an interaction that only changes the language or the field size, the
\* image still submitted and already classified, leaves the history as it was.
C8_SettingsLeaveHistory ==
    [][ ( /\ run = "done"
          /\ final_img # NoImage
          /\ final_img' = final_img
          /\ (selected_lang' # selected_lang \/ field_size' # field_size) )
        => scan_history' = scan_history ]_vars

\* C9: a run whose classifier call fails shows the exception, leaves the
\* history exactly as it was, looks nothing up and derives no metrics.
C9_ClassifierFailure ==
    [][ run' = "raised" =>
           /\ page'.exception
           /\ scan_history' = scan_history
           /\ data' = NoData
           /\ ~page'.results.tabs
           /\ ~page'.results.highlights
           /\ ~page'.results.detected
           /\ affected_area' = 0 /\ chem_saved' = 0 /\ yield_prot' = 0 ]_vars

\* a failed run on a submitted image in a session that has recorded a scan
C9_Witness ==
    /\ run = "raised"
    /\ final_img # NoImage
    /\ scan_history # <<>>
    /\ page.exception

----------------------------------------------------------------------------
(* Claims about the classifier adapter (SpecAdapter) *)

\* C10: of a non-empty list of pairs, in whatever order, the adapter takes one
\* pair of the list whose confidence no other pair exceeds, and that pair's
\* label and confidence are the ones the metrics, the history entry and the
\* lookup are computed from.
C10_Best ==
    run = "done" =>
        LET kb == knowledge_file.kb
        IN  /\ \E i \in 1..Len(final_img) :
                   final_img[i] = [label |-> raw_label, score |-> confidence]
            /\ \A j \in 1..Len(final_img) : final_img[j].score <= confidence
            /\ clean_label = CleanedForm(raw_label)
            /\ Nearest(affected_area, 110 * ConfScale - 100 * confidence, ConfScale)
            /\ Nearest(yield_prot, 1000 * confidence, ConfScale)
            /\ Last(scan_history).Condition = clean_label
            /\ Nearest(Last(scan_history).Score, 100 * confidence, ConfScale)
            /\ data = IF raw_label \in DOMAIN kb THEN kb[raw_label]
                      ELSE IF clean_label \in DOMAIN kb THEN kb[clean_label]
                      ELSE DefaultRecord

\* a list whose greatest confidence is shared by two pairs, neither at the head
C10_Witness ==
    /\ run = "done"
    /\ Len(final_img) = 3
    /\ final_img[1].score < confidence
    /\ final_img[2].score = confidence
    /\ final_img[3].score = confidence
    /\ final_img[2].label # final_img[3].label
    /\ raw_label = final_img[2].label

----------------------------------------------------------------------------
(* Claims about the confidence guardrail (Spec) *)

\* C11: a label classified with confidence below 0.50 is not presented as a
\* detected condition: the run that classifies it shows no detected-condition
\* metric, no highlights and no treatment plan, and no later run shows it in
\* the history table or as the most frequent condition (every row recorded
\* and shown has a score of at least 5.0, the score of confidence 0.50).
C11_Guardrail ==
    /\ (run = "done" /\ LowConfidence(confidence)) =>
           /\ ~page.results.detected
           /\ ~page.results.highlights
           /\ ~page.results.tabs
    /\ \A i \in 1..Len(scan_history) : scan_history[i].Score >= 50
    /\ page.history.history_shown =>
           /\ \A i \in 1..Len(page.history.table) : page.history.table[i].Score >= 50
           /\ \E i \in 1..Len(scan_history) :
                  /\ scan_history[i].Condition = page.history.insight
                  /\ scan_history[i].Score >= 50

----------------------------------------------------------------------------
(* Claims about the savings display (SpecMetrics) *)

\* C12: for every confidence in [0,1] and every field size in [0.5, 50.0],
\* affected_area and chem_saved both lie in 0..100 and sum to 100, and the
\* estimated chemical reduction chem_saved * field_size * 0.1 is not negative.
C12_ValidPercentages ==
    run = "done" =>
        /\ affected_area \in 0..100
        /\ chem_saved \in 0..100
        /\ affected_area + chem_saved = 100
        /\ page.results.reduction >= 0

====
